---- MODULE Spec2Model ----
(***************************************************************************)
(* Normalization cache and runner of youtube_processor.llm                 *)
(* (normalizer_cache.py, normalizer_runner.py, normalizer_schema.py).      *)
(*                                                                         *)
(* Python strings are sequences of one-character strings, so that slicing  *)
(* (text[:280]), len() and the key format "{video_id}:{unit_id}" are       *)
(* computed as the code computes them.  Confidences are in tenths          *)
(* (0.3 is 3, 1.0 is 10).  A dict is a function from its keys.             *)
(***************************************************************************)
EXTENDS Integers, Sequences, FiniteSets, Bags, TLC

\* ------------------------------------------------------------------ bounds
\* longest candidate list handed to run()
MaxCands == 2
\* largest max_retries a runner is constructed with
MaxRetriesBound == 1

\* ------------------------------------------------------- program constants
\* c['text'][:280] in _create_fallback
FallbackSummaryLen == 280
\* 'confidence': 0.3 in _create_fallback (tenths)
FallbackConfidence == 3
\* NORMALIZED_SCHEMA: name maxLength / minLength
NameMaxLen == 80
NameMinLen == 1
\* NORMALIZED_SCHEMA: summary maxLength / minLength
SummaryMaxLen == 300
SummaryMinLen == 1
\* NORMALIZED_SCHEMA: confidence minimum / maximum (tenths)
ConfidenceMinimum == 0
ConfidenceMaximum == 10

\* --------------------------------------------------------------- strings
Rep(c, n) == [i \in 1..n |-> c]
Min(a, b) == IF a < b THEN a ELSE b
\* s[:n]
Prefix(s, n) == SubSeq(s, 1, Min(Len(s), n))
Range(s) == {s[i] : i \in DOMAIN s}

\* the empty dict
EmptyMap == [k \in {} |-> {}]
\* dict d with key k deleted
Without(d, k) == [x \in (DOMAIN d) \ {k} |-> d[x]]
\* dict d with d[k] = v
With(d, k, v) == [x \in (DOMAIN d) \cup {k} |-> IF x = k THEN v ELSE d[x]]

\* ------------------------------------------------------------- taxonomy
TAXONOMY ==
  << "technique", "pattern", "use-case", "capability", "integration",
     "anti-pattern", "component", "troubleshooting", "configuration",
     "code-snippet" >>

\* the enum of NORMALIZED_SCHEMA's units[].type
SchemaTypeEnum ==
  { "technique", "pattern", "use-case", "capability", "integration",
    "anti-pattern", "component", "troubleshooting", "configuration",
    "code-snippet" }

UnitFields == {"id", "type", "name", "summary", "confidence"}

\* ---------------------------------------------------------- signature
\* json.dumps(config, sort_keys=True) of {model, template_version,
\* sorted(taxonomy)}, then SHA-256.  The sorted list is the bag of its
\* elements; the digest is taken as collision-free, so the signature is the
\* canonical configuration itself.
SeqToBag(s) == [x \in Range(s) |-> Cardinality({i \in DOMAIN s : s[i] = x})]
\* the taxonomy hashed in the order it was given
compute_normalizer_signature_NoSort(model, template_version, taxonomy) ==
  [model |-> model, template_version |-> template_version,
   taxonomy |-> taxonomy]

compute_normalizer_signature(model, template_version, taxonomy) ==
  [model |-> model, template_version |-> template_version,
   taxonomy |-> SeqToBag(taxonomy)]

\* ------------------------------------------------------ NormalizerCache
\* f"{video_id}:{unit_id}"
_key(video_id, unit_id) == video_id \o <<":">> \o unit_id

\* CacheRecord, as asdict() stores it
CacheRecord(type, name, summary, confidence, normalizer_sig) ==
  [type |-> type, name |-> name, summary |-> summary,
   confidence |-> confidence, normalizer_sig |-> normalizer_sig]

\* the fields CacheRecord(**raw) accepts: all of them, and no other
CacheFields == {"type", "name", "summary", "confidence", "normalizer_sig"}

\* cache.get raises TypeError: "if raw:" lets a non-empty dict through and
\* CacheRecord(**raw) rejects a missing or an unexpected field
get_raises(d, video_id, unit_id) ==
  LET k == _key(video_id, unit_id)
  IN  k \in DOMAIN d /\ DOMAIN d[k] # {} /\ DOMAIN d[k] # CacheFields

\* cache.get where it does not raise: the record, or None (the empty
\* sequence) for a missing key and for an empty dict ("if raw:")
get(d, video_id, unit_id) ==
  LET k == _key(video_id, unit_id)
  IN  IF k \in DOMAIN d /\ DOMAIN d[k] # {} THEN <<d[k]>> ELSE <<>>

has(d, video_id, unit_id) == _key(video_id, unit_id) \in DOMAIN d

\* the mapping after cache.set(video_id, unit_id, record)
set(d, video_id, unit_id, record) == With(d, _key(video_id, unit_id), record)

\* the entry deleted whatever its signature
invalidate_if_sig_mismatch_NoCompare(d, video_id, unit_id, current_sig) ==
  LET k == _key(video_id, unit_id)
  IN  IF k \in DOMAIN d
      THEN [data |-> Without(d, k), ret |-> TRUE]
      ELSE [data |-> d, ret |-> FALSE]

\* no entry ever deleted
invalidate_if_sig_mismatch_Never(d, video_id, unit_id, current_sig) ==
  [data |-> d, ret |-> FALSE]

\* invalidate_if_sig_mismatch: the mapping afterwards and the value returned
invalidate_if_sig_mismatch(d, video_id, unit_id, current_sig) ==
  LET record == get(d, video_id, unit_id)
  IN  IF record # <<>> /\ record[1].normalizer_sig # current_sig
      THEN [data |-> Without(d, _key(video_id, unit_id)), ret |-> TRUE]
      ELSE [data |-> d, ret |-> FALSE]

\* the cache file: whether it exists, whether json.loads accepts its text,
\* and the value json.loads gives
NoFile == [exists |-> FALSE, json |-> FALSE, content |-> EmptyMap]

\* cache_path.write_text(json.dumps(self.data)): the file afterwards.  The
\* mapping holds only str keys and dicts of str and float, which
\* json.loads(json.dumps(.)) gives back equal
save(d) == [exists |-> TRUE, json |-> TRUE, content |-> d]

\* the mapping a new NormalizerCache starts with: {} when the file is
\* missing or json.loads raises JSONDecodeError, else whatever it parsed to
_load(f) == IF f.exists /\ f.json THEN f.content ELSE EmptyMap

\* ------------------------------------------------------ normalizer_schema
\* jsonschema.validate(data, NORMALIZED_SCHEMA) for one element of units
ValidUnit(u) ==
  /\ UnitFields \subseteq DOMAIN u
  /\ DOMAIN u \subseteq UnitFields
  /\ u.type \in SchemaTypeEnum
  /\ Len(u.name) >= NameMinLen /\ Len(u.name) <= NameMaxLen
  /\ Len(u.summary) >= SummaryMinLen /\ Len(u.summary) <= SummaryMaxLen
  /\ u.confidence >= ConfidenceMinimum /\ u.confidence <= ConfidenceMaximum

validate_normalized(data) ==
  /\ {"video_id", "units"} \subseteq DOMAIN data
  /\ DOMAIN data \subseteq {"video_id", "units"}
  /\ \A i \in DOMAIN data.units : ValidUnit(data.units[i])

\* ------------------------------------------------------ NormalizerRunner
\* result.get('units', [])
UnitsOf(result) == IF "units" \in DOMAIN result THEN result.units ELSE <<>>

\* the ids not compared
_validate_invariants_LengthOnly(result, candidates) ==
  Len(UnitsOf(result)) = Len(candidates)

_validate_invariants(result, candidates) ==
  /\ Len(UnitsOf(result)) = Len(candidates)
  /\ \A i \in DOMAIN candidates :
        /\ "id" \in DOMAIN result.units[i]
        /\ result.units[i].id = candidates[i].id

\* the summary not truncated
_create_fallback_NoTruncate(video_id, candidates) ==
  [video_id |-> video_id,
   units |-> [i \in DOMAIN candidates |->
               [id |-> candidates[i].id, type |-> "component",
                name |-> <<"(", "u", "n", "c", "l", "e", "a", "r", ")">>,
                summary |-> candidates[i].text,
                confidence |-> FallbackConfidence]]]

_create_fallback(video_id, candidates) ==
  [video_id |-> video_id,
   units |-> [i \in DOMAIN candidates |->
               [id |-> candidates[i].id, type |-> "component",
                name |-> <<"(", "u", "n", "c", "l", "e", "a", "r", ")">>,
                summary |-> Prefix(candidates[i].text, FallbackSummaryLen),
                confidence |-> FallbackConfidence]]]

\* _reconstruct_from_cache: ok is FALSE where the code raises (ValueError
\* for a record get() returns None for, TypeError out of get())
_reconstruct_from_cache(d, video_id, candidates) ==
  [ok |-> \A i \in DOMAIN candidates :
            /\ ~get_raises(d, video_id, candidates[i].id)
            /\ get(d, video_id, candidates[i].id) # <<>>,
   value |->
     [video_id |-> video_id,
      units |-> [i \in DOMAIN candidates |->
        LET record == get(d, video_id, candidates[i].id)
        IN  IF record = <<>> \/ get_raises(d, video_id, candidates[i].id)
            THEN [id |-> candidates[i].id]
            ELSE [id |-> candidates[i].id, type |-> record[1].type,
                  name |-> record[1].name, summary |-> record[1].summary,
                  confidence |-> record[1].confidence]]]]

\* the loop "for unit in result['units']: self.cache.set(...)"
RECURSIVE SetAll(_, _, _, _)
SetAll(d, video_id, units, sig) ==
  IF units = <<>> THEN d
  ELSE SetAll(set(d, video_id, Head(units).id,
                  CacheRecord(Head(units).type, Head(units).name,
                              Head(units).summary, Head(units).confidence, sig)),
              video_id, Tail(units), sig)

\* the cache not flushed to disk
_save_to_cache_NoSave(d, f, video_id, result, sig) ==
  [data |-> SetAll(d, video_id, result.units, sig), file |-> f]

\* the mapping replaced by the batch instead of updated with it
_save_to_cache_Replace(d, f, video_id, result, sig) ==
  LET d2 == SetAll(EmptyMap, video_id, result.units, sig)
  IN  [data |-> d2, file |-> save(d2)]

\* _save_to_cache: the mapping and the file afterwards
_save_to_cache(d, f, video_id, result, sig) ==
  LET d2 == SetAll(d, video_id, result.units, sig)
  IN  [data |-> d2, file |-> save(d2)]

\* every entry under another signature deleted, whatever its key
InvalidateAll_WholeCache(d, video_id, candidates, sig) ==
  [k \in {x \in DOMAIN d : d[x].normalizer_sig = sig} |-> d[k]]

\* the invalidation loop raises: get() raises for one of the candidates
InvalidateRaises(d, video_id, candidates) ==
  \E i \in DOMAIN candidates : get_raises(d, video_id, candidates[i].id)

\* the loop "for c in candidates: self.cache.invalidate_if_sig_mismatch(...)":
\* the mapping when the loop ends, or when get() raises out of it
RECURSIVE InvalidateAll(_, _, _, _)
InvalidateAll(d, video_id, candidates, sig) ==
  IF candidates = <<>> THEN d
  ELSE IF get_raises(d, video_id, Head(candidates).id) THEN d
  ELSE InvalidateAll(
         invalidate_if_sig_mismatch(d, video_id, Head(candidates).id, sig).data,
         video_id, Tail(candidates), sig)

\* any() in place of all()
all_cached_Any(d, video_id, candidates) ==
  \E i \in DOMAIN candidates : has(d, video_id, candidates[i].id)

\* no list counts as cached: every run() goes to the categorizer
all_cached_Never(d, video_id, candidates) == FALSE

\* all(self.cache.has(video_id, c['id']) for c in candidates)
all_cached(d, video_id, candidates) ==
  \A i \in DOMAIN candidates : has(d, video_id, candidates[i].id)

\* one retry too many
retry_OffByOne(attempt, maxr) == attempt <= maxr

\* "if attempt < self.max_retries: continue / else: break"
retry(attempt, maxr) == attempt < maxr

\* ------------------------------------------------------------- inputs
IdA == <<"0", ":", "1">>
IdB == <<"1">>
WrongId == <<"W">>
\* one character longer than the fallback keeps
LongText == Rep("x", FallbackSummaryLen) \o <<"y">>

\* candidates as run() reads them: id and text (start, end, window and score
\* are never read by the runner)
CandA == [id |-> IdA, text |-> <<>>]
CandB == [id |-> IdB, text |-> LongText]
Candidates == { CandA, CandB }

RECURSIVE SeqsUpTo(_, _)
SeqsUpTo(S, n) ==
  IF n = 0 THEN { <<>> }
  ELSE LET shorter == SeqsUpTo(S, n - 1)
       IN  shorter \cup { Append(q, x) : q \in shorter, x \in S }

CandidateLists == SeqsUpTo(Candidates, MaxCands)

MainVideo == <<"v">>
\* its key for IdB is the main video's key for IdA
OtherVideo == <<"v", ":", "0">>

\* the calls run(video_id, candidates) made: any list for the main video,
\* the colliding unit for the other one
RunInputs ==
  { <<MainVideo, cands>> : cands \in CandidateLists }
  \cup { <<OtherVideo, cands>> : cands \in SeqsUpTo({CandB}, 1) }

VideoIds == { MainVideo, OtherVideo }

Models == {"model-a", "model-b"}
TemplateVersions == {"v2.1"}

\* what the categorizer may answer for one unit when it answers well
Variants ==
  { [type |-> "technique", name |-> <<"n", "1">>, summary |-> <<"s", "1">>,
     confidence |-> 9],
    [type |-> "pattern", name |-> <<"n", "2">>, summary |-> <<"s", "2">>,
     confidence |-> 0] }

MkUnit(id, var) ==
  [id |-> id, type |-> var.type, name |-> var.name, summary |-> var.summary,
   confidence |-> var.confidence]

Defects ==
  { "none", "raise", "drop", "add", "permute", "wrongid", "noid", "badtype",
    "conf_hi", "conf_lo", "emptyname", "longname", "emptysummary",
    "longsummary", "extrafield", "missingfield", "top_extra", "no_units" }

\* one character more than the schema allows
LongName == Rep("n", NameMaxLen + 1)
LongSummary == Rep("s", SummaryMaxLen + 1)

\* the defects that do not touch a unit
ListDefects == { "none", "raise", "top_extra", "no_units" }

Reverse(q) == [i \in DOMAIN q |-> q[Len(q) + 1 - i]]
DropField(u, f) == [x \in (DOMAIN u) \ {f} |-> u[x]]
\* the units with the first one replaced
First(units, u) == [units EXCEPT ![1] = u]

\* the categorizer's answer: well-formed units for the candidates, one per
\* candidate, then spoiled by one defect
Spoil(defect, video_id, units) ==
  LET u == units[1]
      r(us) == [video_id |-> video_id, units |-> us]
  IN  CASE defect = "drop" -> r(SubSeq(units, 1, Len(units) - 1))
        [] defect = "add" -> r(Append(units, [u EXCEPT !.id = WrongId]))
        [] defect = "permute" -> r(Reverse(units))
        [] defect = "wrongid" -> r(First(units, [u EXCEPT !.id = WrongId]))
        [] defect = "noid" -> r(First(units, DropField(u, "id")))
        [] defect = "badtype" -> r(First(units, [u EXCEPT !.type = "antipattern"]))
        [] defect = "conf_hi" ->
             r(First(units, [u EXCEPT !.confidence = ConfidenceMaximum + 1]))
        [] defect = "conf_lo" ->
             r(First(units, [u EXCEPT !.confidence = ConfidenceMinimum - 1]))
        [] defect = "emptyname" -> r(First(units, [u EXCEPT !.name = <<>>]))
        [] defect = "longname" ->
             r(First(units, [u EXCEPT !.name = LongName]))
        [] defect = "emptysummary" -> r(First(units, [u EXCEPT !.summary = <<>>]))
        [] defect = "longsummary" ->
             r(First(units, [u EXCEPT !.summary = LongSummary]))
        [] defect = "extrafield" -> r(First(units, With(u, "note", <<"!">>)))
        [] defect = "missingfield" -> r(First(units, DropField(u, "confidence")))
        [] defect = "top_extra" -> With(r(units), "usage", <<"!">>)
        [] defect = "no_units" -> [video_id |-> video_id]
        [] OTHER -> r(units)

\* every outcome of one call normalize(video_id, candidates): it raises (an
\* error, a timeout), or returns a value.  A well-formed answer chooses each
\* unit's categorization and the video_id it echoes freely; a spoiled answer
\* is one well-formed answer with one defect
WellFormed(candidates) ==
  { [video_id |-> vid,
     units |-> [i \in DOMAIN candidates |-> MkUnit(candidates[i].id, vs[i])]] :
      vid \in VideoIds, vs \in [DOMAIN candidates -> Variants] }

Outcomes(video_id, candidates) ==
  { [raises |-> FALSE, value |-> w] : w \in WellFormed(candidates) }
  \cup
  { [raises |-> (defect = "raise"),
     value |-> Spoil(defect, video_id,
                     [i \in DOMAIN candidates |->
                        MkUnit(candidates[i].id, CHOOSE var \in Variants : TRUE)])] :
      defect \in IF candidates = <<>> THEN ListDefects ELSE Defects }

NoResult == [video_id |-> <<>>, units |-> <<>>]

\* no run() has ended in the fallback under the signature in use; fallbacks
\* are not watched, or are
NoFallback ==
  [watched |-> FALSE, made |-> FALSE, video_id |-> <<>>, candidates |-> <<>>,
   result |-> NoResult]

WatchedNoFallback == [NoFallback EXCEPT !.watched = TRUE]

\* ------------------------------------------------------- ExtractOptions
\* the defaults of the dataclass; an Optional is a sequence of length 0 or 1
\* and jaccard_threshold 0.92 is the fraction 92/100
DefaultOptions ==
  [window_chars |-> 3500, target_count |-> <<>>, min_words |-> 4,
   max_words |-> 24, jaccard_threshold |-> [num |-> 92, den |-> 100],
   per_window_quota |-> <<>>]

\* ------------------------------------------------------------------ state
VARIABLES
  file,            \* the cache file on disk
  data,            \* runner.cache.data
  data2,           \* the data of a second NormalizerCache on the same file
  normalizer_sig,  \* runner.normalizer_sig
  max_retries,     \* runner.max_retries
  pc,              \* "idle", or "calling": run() is inside _normalize_with_retry
  video_id,        \* argument of the current or last run()
  candidates,      \* argument of the current or last run()
  attempt,         \* the loop variable of _normalize_with_retry
  calls,           \* normalizer.normalize calls made by the current or last run()
  result,          \* what the last run() returned
  path,            \* how it was produced: none, pending, cache, fresh, fallback, raised
  repeat,          \* the path of the previous run() on this runner when it had
                   \* the same arguments, else "no"
  last_fallback,   \* where fallbacks are watched: the arguments and the
                   \* result of the latest run() that ended in the fallback
                   \* under the signature in use
  call,            \* the last direct call of a NormalizerCache method
  ret,             \* the value it returned
  transcript,      \* argument of extract_deterministic_units
  opts,            \* argument of extract_deterministic_units
  total_len,       \* its local total_len, len(transcript)
  collapsed,       \* its local collapsed, after the near-duplicate pass
  units,           \* ExtractResult.units of its last execution
  executions,      \* how many times it has been executed on these arguments
  split_pc,        \* "idle", or where split_into_windows_by_chars(transcript,
                   \* opts.window_chars) is: "loop" or "returned"
  cursor,          \* its local i
  window_list,     \* its local result
  extract_pc,      \* DeterministicExtractor.extract(video_id, transcript):
                   \* "idle", "returned" or "raised"
  error,           \* the exception it raised
  cli_runs,        \* subprocess.run calls it has made
  window_no,       \* extract_deterministic_units, "for w in windows": how many
                   \* windows the loop has been through
  unit_candidates  \* its local candidates

vars ==
  << file, data, data2, normalizer_sig, max_retries, pc, video_id, candidates,
     attempt, calls, result, path, repeat, last_fallback, call, ret,
     transcript, opts, total_len, collapsed, units, executions,
     split_pc, cursor, window_list, extract_pc, error, cli_runs,
     window_no, unit_candidates >>

loopVars == << window_no, unit_candidates >>

\* the loop over the windows is not being followed
NoWindowLoop ==
  /\ window_no = 0
  /\ unit_candidates = <<>>

wrapperVars == << extract_pc, error, cli_runs >>

NoError == [type |-> "none", msg |-> "none"]

\* DeterministicExtractor.extract has not been called
NoWrapperCall ==
  /\ extract_pc = "idle"
  /\ error = NoError
  /\ cli_runs = 0

splitVars == << split_pc, cursor, window_list >>

extractorVars ==
  << transcript, opts, total_len, collapsed, units, executions, splitVars,
     wrapperVars, loopVars >>

\* split_into_windows_by_chars is not being followed
NoSplit ==
  /\ split_pc = "idle"
  /\ cursor = 0
  /\ window_list = <<>>

\* extract_deterministic_units has not been called
NoExtraction ==
  /\ transcript = <<>>
  /\ opts = DefaultOptions
  /\ total_len = 0
  /\ collapsed = <<>>
  /\ units = <<>>
  /\ executions = 0
  /\ NoSplit
  /\ NoWindowLoop
  /\ NoWrapperCall

NoCall == [name |-> "none", video_id |-> <<>>, unit_id |-> <<>>]

\* NormalizerRunner.__init__ over the cache file f
NewRunnerFields(f, model, tv, maxr) ==
  /\ data = _load(f)
  /\ normalizer_sig = compute_normalizer_signature(model, tv, TAXONOMY)
  /\ max_retries = maxr
  /\ pc = "idle"
  /\ video_id = <<>>
  /\ candidates = <<>>
  /\ attempt = 0
  /\ calls = 0
  /\ result = NoResult
  /\ path = "none"
  /\ repeat = "no"

NewRunnerState(f, model, tv, maxr) ==
  /\ NewRunnerFields(f, model, tv, maxr)
  /\ last_fallback = NoFallback

Init ==
  /\ NoExtraction
  /\ file = NoFile
  /\ data2 = _load(file)
  /\ call = NoCall
  /\ ret = FALSE
  /\ \E model \in Models, tv \in TemplateVersions, maxr \in 0..MaxRetriesBound :
        NewRunnerState(file, model, tv, maxr)

\* a new NormalizerRunner is constructed on the same cache_path
NewRunner(model, tv, maxr) ==
  /\ pc = "idle"
  /\ file' = file
  /\ data' = _load(file)
  /\ normalizer_sig' = compute_normalizer_signature(model, tv, TAXONOMY)
  /\ max_retries' = maxr
  /\ pc' = "idle"
  /\ video_id' = <<>>
  /\ candidates' = <<>>
  /\ attempt' = 0
  /\ calls' = 0
  /\ result' = NoResult
  /\ path' = "none"
  /\ repeat' = "no"
  /\ last_fallback' =
        IF compute_normalizer_signature(model, tv, TAXONOMY) = normalizer_sig
        THEN last_fallback
        ELSE IF last_fallback.watched THEN WatchedNoFallback ELSE NoFallback
  /\ UNCHANGED << data2, call, ret, extractorVars >>

\* run(v, cands) up to its return from cache or its first normalize call
RunStart(v, cands) ==
  /\ pc = "idle"
  /\ LET d1 == InvalidateAll(data, v, cands, normalizer_sig)
         rec == _reconstruct_from_cache(d1, v, cands)
     IN  /\ data' = d1
         /\ IF InvalidateRaises(data, v, cands)
            THEN /\ pc' = "idle"
                 /\ result' = NoResult
                 /\ path' = "raised"
            ELSE IF all_cached(d1, v, cands)
            THEN /\ pc' = "idle"
                 /\ result' = IF rec.ok THEN rec.value ELSE NoResult
                 /\ path' = IF rec.ok THEN "cache" ELSE "raised"
            ELSE /\ pc' = "calling"
                 /\ result' = NoResult
                 /\ path' = "pending"
  /\ video_id' = v
  /\ candidates' = cands
  /\ attempt' = 0
  /\ calls' = 0
  /\ repeat' = IF v = video_id /\ cands = candidates /\ path # "none"
               THEN path ELSE "no"
  /\ UNCHANGED << file, data2, normalizer_sig, max_retries, last_fallback,
                  call, ret, extractorVars >>

\* one iteration of _normalize_with_retry's loop: a normalize call with outcome
\* o, the two validations, and, when the loop ends, the rest of run()
Attempt(o) ==
  /\ pc = "calling"
  /\ calls' = calls + 1
  /\ LET accepted == /\ ~o.raises
                     /\ _validate_invariants(o.value, candidates)
                     /\ validate_normalized(o.value)
     IN  IF ~accepted /\ retry(attempt, max_retries)
         THEN /\ attempt' = attempt + 1
              /\ UNCHANGED << file, data, pc, result, path, last_fallback >>
         ELSE LET res == IF accepted THEN o.value
                         ELSE _create_fallback(video_id, candidates)
                  saved == _save_to_cache(data, file, video_id, res, normalizer_sig)
              IN  /\ result' = res
                  /\ path' = IF accepted THEN "fresh" ELSE "fallback"
                  /\ data' = saved.data
                  /\ file' = saved.file
                  /\ pc' = "idle"
                  /\ attempt' = 0
                  /\ last_fallback' =
                        IF accepted \/ ~last_fallback.watched THEN last_fallback
                        ELSE [watched |-> TRUE, made |-> TRUE,
                              video_id |-> video_id,
                              candidates |-> candidates, result |-> res]
  /\ UNCHANGED << data2, normalizer_sig, max_retries, video_id, candidates,
                  repeat, call, ret, extractorVars >>

Next ==
  \/ \E model \in Models, tv \in TemplateVersions, maxr \in 0..MaxRetriesBound :
        NewRunner(model, tv, maxr)
  \/ \E in \in RunInputs : RunStart(in[1], in[2])
  \/ pc = "calling" /\ \E o \in Outcomes(video_id, candidates) : Attempt(o)

Spec == Init /\ [][Next]_vars

\* the same runs, the fallbacks being watched
InitWatched ==
  /\ NoExtraction
  /\ file = NoFile
  /\ data2 = _load(file)
  /\ call = NoCall
  /\ ret = FALSE
  /\ last_fallback = WatchedNoFallback
  /\ \E model \in Models, tv \in TemplateVersions, maxr \in 0..MaxRetriesBound :
        NewRunnerFields(file, model, tv, maxr)

SpecWatched == InitWatched /\ [][Next]_vars

\* ------------------------------------------- NormalizerCache, used directly
Sigs ==
  { compute_normalizer_signature(model, tv, TAXONOMY) :
      model \in Models, tv \in TemplateVersions }

UnitIds == { IdA, IdB }

\* the records handed to set()
Records ==
  { CacheRecord(var.type, var.name, var.summary, var.confidence, sig) :
      var \in { CHOOSE x \in Variants : TRUE }, sig \in Sigs }

runnerVars ==
  << normalizer_sig, max_retries, pc, video_id, candidates, attempt, calls,
     result, path, repeat, last_fallback >>

\* cache.set(v, u, record)
CacheSet(v, u, record) ==
  /\ data' = set(data, v, u, record)
  /\ call' = [name |-> "set", video_id |-> v, unit_id |-> u, record |-> record]
  /\ ret' = FALSE
  /\ UNCHANGED << file, data2, runnerVars, extractorVars >>

\* cache.invalidate_if_sig_mismatch(v, u, sig)
CacheInvalidate(v, u, sig) ==
  /\ data' = invalidate_if_sig_mismatch(data, v, u, sig).data
  /\ ret' = invalidate_if_sig_mismatch(data, v, u, sig).ret
  /\ call' = [name |-> "invalidate_if_sig_mismatch", video_id |-> v,
              unit_id |-> u, current_sig |-> sig]
  /\ UNCHANGED << file, data2, runnerVars, extractorVars >>

\* cache.save()
CacheSave ==
  /\ file' = save(data)
  /\ call' = [name |-> "save"]
  /\ ret' = FALSE
  /\ UNCHANGED << data, data2, runnerVars, extractorVars >>

\* NormalizerCache(cache_path): a new cache object over the same file
CacheNew ==
  /\ data' = _load(file)
  /\ call' = [name |-> "__init__"]
  /\ ret' = FALSE
  /\ UNCHANGED << file, data2, runnerVars, extractorVars >>

InitCache ==
  /\ NoExtraction
  /\ file = NoFile
  /\ data2 = _load(file)
  /\ call = NoCall
  /\ ret = FALSE
  /\ NewRunnerState(file, CHOOSE m \in Models : TRUE,
                    CHOOSE tv \in TemplateVersions : TRUE, 0)

NextCache ==
  \/ \E v \in VideoIds, u \in UnitIds, record \in Records : CacheSet(v, u, record)
  \/ \E v \in VideoIds, u \in UnitIds, sig \in Sigs : CacheInvalidate(v, u, sig)
  \/ CacheSave
  \/ CacheNew

SpecCache == InitCache /\ [][NextCache]_vars

\* ------------------------- two NormalizerCache objects on one cache file
Instances == {1, 2}

\* the data of instance i
Mapping(i) == IF i = 1 THEN data ELSE data2

\* the data of instance i after the step
MappingAfter(i) == IF i = 1 THEN data' ELSE data2'

\* instance i's data becomes d, the other instance's stays
SetMapping(i, d) ==
  IF i = 1 THEN data' = d /\ data2' = data2
  ELSE data2' = d /\ data' = data

\* a set() that writes the file as well
SharedSet_WriteThrough(i, v, u, record) ==
  /\ SetMapping(i, set(Mapping(i), v, u, record))
  /\ file' = save(set(Mapping(i), v, u, record))
  /\ call' = [name |-> "set", instance |-> i, video_id |-> v, unit_id |-> u,
              record |-> record]
  /\ ret' = FALSE
  /\ UNCHANGED << runnerVars, extractorVars >>

\* instance i: cache.set(v, u, record)
SharedSet(i, v, u, record) ==
  /\ SetMapping(i, set(Mapping(i), v, u, record))
  /\ call' = [name |-> "set", instance |-> i, video_id |-> v, unit_id |-> u,
              record |-> record]
  /\ ret' = FALSE
  /\ UNCHANGED << file, runnerVars, extractorVars >>

\* instance i: cache.invalidate_if_sig_mismatch(v, u, sig)
SharedInvalidate(i, v, u, sig) ==
  /\ SetMapping(i, invalidate_if_sig_mismatch(Mapping(i), v, u, sig).data)
  /\ ret' = invalidate_if_sig_mismatch(Mapping(i), v, u, sig).ret
  /\ call' = [name |-> "invalidate_if_sig_mismatch", instance |-> i,
              video_id |-> v, unit_id |-> u, current_sig |-> sig]
  /\ UNCHANGED << file, runnerVars, extractorVars >>

\* save() that keeps the keys of the file it does not hold itself
SharedSave_Merge(i) ==
  /\ file' = save([k \in (DOMAIN Mapping(i)) \cup (DOMAIN _load(file)) |->
                     IF k \in DOMAIN Mapping(i) THEN Mapping(i)[k]
                     ELSE _load(file)[k]])
  /\ call' = [name |-> "save", instance |-> i, found |-> file]
  /\ ret' = FALSE
  /\ UNCHANGED << data, data2, runnerVars, extractorVars >>

\* instance i: cache.save(); found is the file it overwrites
SharedSave(i) ==
  /\ file' = save(Mapping(i))
  /\ call' = [name |-> "save", instance |-> i, found |-> file]
  /\ ret' = FALSE
  /\ UNCHANGED << data, data2, runnerVars, extractorVars >>

\* instance i is constructed anew: NormalizerCache(cache_path)
SharedNew(i) ==
  /\ SetMapping(i, _load(file))
  /\ call' = [name |-> "__init__", instance |-> i]
  /\ ret' = FALSE
  /\ UNCHANGED << file, runnerVars, extractorVars >>

NextShared ==
  \/ \E i \in Instances, u \in UnitIds, record \in Records :
        SharedSet(i, MainVideo, u, record)
  \/ \E i \in Instances, u \in UnitIds, sig \in Sigs :
        SharedInvalidate(i, MainVideo, u, sig)
  \/ \E i \in Instances : SharedSave(i)
  \/ \E i \in Instances : SharedNew(i)

\* both instances constructed while the file does not exist
SpecShared == InitCache /\ [][NextShared]_vars

\* ------------------------------- a cache file that save() did not write
\* text that json.loads rejects
Unparseable == [exists |-> TRUE, json |-> FALSE, content |-> EmptyMap]

\* {"v:1": {}}: a record with no field
EmptyRecordFile ==
  [exists |-> TRUE, json |-> TRUE,
   content |-> With(EmptyMap, _key(MainVideo, IdB), EmptyMap)]

\* {"v:1": {"type": "pattern"}}: a record lacking fields
PartialRecordFile ==
  [exists |-> TRUE, json |-> TRUE,
   content |-> With(EmptyMap, _key(MainVideo, IdB), [type |-> "pattern"])]

DamagedFiles == { NoFile, Unparseable, EmptyRecordFile, PartialRecordFile }

\* a runner constructed on a missing or damaged cache file
InitDamaged ==
  /\ NoExtraction
  /\ file \in DamagedFiles
  /\ data2 = _load(file)
  /\ call = NoCall
  /\ ret = FALSE
  /\ \E model \in Models, tv \in TemplateVersions, maxr \in 0..MaxRetriesBound :
        NewRunnerState(file, model, tv, maxr)

SpecDamaged == InitDamaged /\ [][Next]_vars

\* run() is fair to its own loop: a normalize call returns or raises
FairSpec ==
  Spec /\ WF_vars(pc = "calling" /\ \E o \in Outcomes(video_id, candidates) : Attempt(o))

\* ----------------------------------------- deterministic_extractor: text
\* characters are one-character strings; "B_" stands for the one character
\* U+FF22 (fullwidth B), which NFKC turns into "B"
Terminators == {".", "!", "?"}
\* [\\"')\]] in the pattern of sentence_split
Closers == {"\\", "\"", "'", ")", "]"}
\* what \s and str.strip() take for whitespace
Whitespace == {" ", "\t", "\n"}
\* the characters used here whose Unicode category starts with P or S
PunctOrSymbol == Terminators \cup Closers \cup {",", ";", ":", "-", "(", "["}

\* the code point, for the order of str
Ord(c) ==
  CASE c = "\t" -> 9 [] c = "\n" -> 10 [] c = " " -> 32 [] c = "!" -> 33
    [] c = "\"" -> 34 [] c = "'" -> 39 [] c = "(" -> 40 [] c = ")" -> 41
    [] c = "," -> 44 [] c = "-" -> 45 [] c = "." -> 46 [] c = ":" -> 58
    [] c = ";" -> 59 [] c = "?" -> 63 [] c = "A" -> 65 [] c = "B" -> 66
    [] c = "[" -> 91 [] c = "\\" -> 92 [] c = "]" -> 93 [] c = "a" -> 97
    [] c = "b" -> 98 [] c = "c" -> 99 [] c = "e" -> 101 [] c = "s" -> 115
    [] c = "u" -> 117 [] c = "B_" -> 65314

\* a < b for two str
RECURSIVE StrLess(_, _)
StrLess(a, b) ==
  IF b = <<>> THEN FALSE
  ELSE IF a = <<>> THEN TRUE
  ELSE IF Head(a) = Head(b) THEN StrLess(Tail(a), Tail(b))
  ELSE Ord(Head(a)) < Ord(Head(b))

\* unicodedata.normalize('NFKC', .) of one character
NFKC(c) == IF c = "B_" THEN "B" ELSE c

\* str.lower() of one character
Lower(c) == CASE c = "A" -> "a" [] c = "B" -> "b" [] OTHER -> c

strip_punct_symbols(s) ==
  [i \in DOMAIN s |-> IF s[i] \in PunctOrSymbol THEN " " ELSE s[i]]

\* s.strip()
RECURSIVE LStrip(_)
LStrip(s) ==
  IF s # <<>> /\ Head(s) \in Whitespace THEN LStrip(Tail(s)) ELSE s
RECURSIVE RStrip(_)
RStrip(s) ==
  IF s # <<>> /\ s[Len(s)] \in Whitespace
  THEN RStrip(SubSeq(s, 1, Len(s) - 1)) ELSE s
Strip(s) == RStrip(LStrip(s))

\* re.sub(r'\s+', ' ', s)
RECURSIVE CollapseWhitespace(_)
CollapseWhitespace(s) ==
  IF s = <<>> THEN <<>>
  ELSE IF Head(s) \in Whitespace
       THEN <<" ">> \o CollapseWhitespace(LStrip(s))
       ELSE <<Head(s)>> \o CollapseWhitespace(Tail(s))

canon_text(s) ==
  LET stripped == strip_punct_symbols(s)
      normal == [i \in DOMAIN stripped |-> NFKC(stripped[i])]
      lower == [i \in DOMAIN normal |-> Lower(normal[i])]
  IN  Strip(CollapseWhitespace(lower))

\* len(t.split()) if t else 0, for t = canon_text(s): one more than the
\* spaces of a non-empty canonical text
words(s) ==
  LET t == canon_text(s)
  IN  IF t = <<>> THEN 0
      ELSE 1 + Cardinality({i \in DOMAIN t : t[i] = " "})

ngrams3(s) ==
  LET t == canon_text(s)
  IN  { SubSeq(t, i, i + 2) : i \in 1..(Len(t) - 2) }

\* jaccard3(a, b) >= threshold, the threshold being the fraction num/den
jaccard3_at_least(a, b, threshold) ==
  LET A == ngrams3(a)
      B == ngrams3(b)
      inter == Cardinality(A \cap B)
      union == Cardinality(A) + Cardinality(B) - inter
  IN  IF union > 0 THEN inter * threshold.den >= threshold.num * union
      ELSE threshold.den >= threshold.num

\* haystack.find(needle, i) as a 1-based position, 0 for -1
RECURSIVE Find(_, _, _)
Find(haystack, needle, i) ==
  IF i + Len(needle) - 1 > Len(haystack) THEN 0
  ELSE IF SubSeq(haystack, i, i + Len(needle) - 1) = needle THEN i
  ELSE Find(haystack, needle, i + 1)

RECURSIVE CountFrom(_, _, _)
CountFrom(haystack, needle, i) ==
  LET at == Find(haystack, needle, i)
  IN  IF at = 0 THEN 0 ELSE 1 + CountFrom(haystack, needle, at + Len(needle))

occurrences(haystack, needle) ==
  IF needle = <<>> THEN 0 ELSE 1 + CountFrom(haystack, needle, 1)

\* ---------------------------------- deterministic_extractor: segmentation
\* s[i:end] for 0-based offsets 0 <= i <= end (an end beyond len(s) stands
\* for len(s))
Slice(s, i, end) == SubSeq(s, i + 1, Min(end, Len(s)))

\* s.rfind('. '): the last 0-based offset of ". " in s, or -1
rfind_boundary(s) ==
  LET at == { b \in 0..(Len(s) - 2) : s[b + 1] = "." /\ s[b + 2] = " " }
  IN  IF at = {} THEN 0 - 1 ELSE CHOOSE b \in at : \A x \in at : x <= b

\* the window's end with no upper limit at len(s)
WindowEnd_NoMin(s, window_chars, i) == i + window_chars

\* where the window that starts at i ends: min(i + window_chars, len(s)),
\* moved back to just after the last ". " of the window when the window
\* does not reach the end of s and that ". " is not at its very start
WindowEnd(s, window_chars, i) ==
  LET hard == Min(i + window_chars, Len(s))
      boundary == rfind_boundary(Slice(s, i, hard))
  IN  IF hard < Len(s) /\ boundary > 0 THEN i + boundary + 2 ELSE hard

\* the dict appended for the window from i to end
Window(s, i, end, idx) ==
  [start |-> i, end |-> end, text |-> Slice(s, i, end), index |-> idx]

\* the windows the loop of split_into_windows_by_chars appends from cursor
\* i and index idx on, for window_chars >= 1
RECURSIVE WindowsFrom(_, _, _, _)
WindowsFrom(s, window_chars, i, idx) ==
  IF ~(i < Len(s)) THEN <<>>
  ELSE << Window(s, i, WindowEnd(s, window_chars, i), idx) >>
       \o WindowsFrom(s, window_chars, WindowEnd(s, window_chars, i), idx + 1)

split_into_windows_by_chars(s, window_chars) ==
  WindowsFrom(s, window_chars, 0, 0)

\* the first 0-based offset at or after p whose character is (in = TRUE) or
\* is not (in = FALSE) a terminator; len(s) if there is none
RECURSIVE Skip(_, _, _)
Skip(s, p, in) ==
  IF p >= Len(s) THEN Len(s)
  ELSE IF (s[p + 1] \in Terminators) = in THEN p
  ELSE Skip(s, p + 1, in)

\* the lookahead (?=(?:[\\"')\]]*\s+)|$) at offset k
RECURSIVE Lookahead(_, _)
Lookahead(s, k) ==
  IF k >= Len(s) THEN FALSE
  ELSE IF s[k + 1] \in Closers THEN Lookahead(s, k + 1)
  ELSE s[k + 1] \in Whitespace

\* the matches re.finditer finds from offset p on: a maximal run of
\* non-terminators, then the whole run of terminators, where the lookahead
\* holds; where it does not, the search resumes after the terminators
RECURSIVE MatchesFrom(_, _)
MatchesFrom(s, p) ==
  IF p >= Len(s) THEN <<>>
  ELSE IF s[p + 1] \in Terminators THEN MatchesFrom(s, p + 1)
  ELSE LET j == Skip(s, p, TRUE)
           k == Skip(s, j, FALSE)
       IN  IF j = Len(s) THEN <<>>
           ELSE IF k = Len(s) \/ Lookahead(s, k)
                THEN << [text |-> Slice(s, p, k), start |-> p, end |-> k] >>
                     \o MatchesFrom(s, k)
                ELSE MatchesFrom(s, k)

sentence_split(s) ==
  LET out == MatchesFrom(s, 0)
  IN  IF out = <<>> /\ Strip(s) # <<>>
      THEN << [text |-> s, start |-> 0, end |-> Len(s)] >>
      ELSE out

\* t.split() of a canonical text
RECURSIVE Tokens(_)
Tokens(t) ==
  IF t = <<>> THEN <<>>
  ELSE LET sp == { i \in DOMAIN t : t[i] = " " }
       IN  IF sp = {} THEN << t >>
           ELSE LET i == CHOOSE x \in sp : \A y \in sp : x <= y
                IN  << SubSeq(t, 1, i - 1) >> \o Tokens(SubSeq(t, i + 1, Len(t)))

\* (?:you|we)
Subjects == { <<"y", "o", "u">>, <<"w", "e">> }
\* (?:must|should|never|always)
Modals ==
  { <<"m", "u", "s", "t">>, <<"s", "h", "o", "u", "l", "d">>,
    <<"n", "e", "v", "e", "r">>, <<"a", "l", "w", "a", "y", "s">> }
\* (?:use|set|avoid|ensure|check|install|enable|disable|measure|calculate)
Verbs ==
  { <<"u", "s", "e">>, <<"s", "e", "t">>, <<"a", "v", "o", "i", "d">>,
    <<"e", "n", "s", "u", "r", "e">>, <<"c", "h", "e", "c", "k">>,
    <<"i", "n", "s", "t", "a", "l", "l">>, <<"e", "n", "a", "b", "l", "e">>,
    <<"d", "i", "s", "a", "b", "l", "e">>, <<"m", "e", "a", "s", "u", "r", "e">>,
    <<"c", "a", "l", "c", "u", "l", "a", "t", "e">> }

\* the pattern is anchored at the start of the canonical text, whose words
\* are separated by single spaces, so \b falls at the end of a word
imperative_boost(s) ==
  LET w == Tokens(canon_text(s))
  IN  IF \/ Len(w) >= 1 /\ w[1] \in Modals \cup Verbs
         \/ Len(w) >= 2 /\ w[1] \in Subjects /\ w[2] \in Modals
      THEN 1 ELSE 0

\* -------------------------------------- deterministic_extractor: scoring
\* quant: round(x * 1_000_000)
QuantScale == 1000000
\* target_count: clamp(round(total_len / 2500), 40, 90)
TargetDivisor == 2500
TargetMin == 40
TargetMax == 90

\* round(n / d) for n >= 0, d > 0: to the nearest integer, a half to the
\* even one
round(n, d) ==
  LET q == n \div d
      r == n % d
  IN  IF 2 * r < d THEN q
      ELSE IF 2 * r > d THEN q + 1
      ELSE IF q % 2 = 0 THEN q ELSE q + 1

clamp(n, lo, hi) == IF n < lo THEN lo ELSE IF n > hi THEN hi ELSE n

\* str(n) for n >= 0
RECURSIVE Decimal(_)
Decimal(n) ==
  LET digit == <<"0", "1", "2", "3", "4", "5", "6", "7", "8", "9">>[(n % 10) + 1]
  IN  IF n < 10 THEN <<digit>> ELSE Decimal(n \div 10) \o <<digit>>

\* an id that leaves out where the unit ends
unit_id_NoEnd(index, abs_start, abs_end) ==
  Decimal(index) \o <<":">> \o Decimal(abs_start)

\* f"{w['index']}:{abs_start}-{abs_end}"
unit_id(index, abs_start, abs_end) ==
  Decimal(index) \o <<":">> \o Decimal(abs_start) \o <<"-">> \o Decimal(abs_end)

\* 0.4 * occ + 0.2 * early + 0.2 * len_norm + 0.2 * imperative with
\* early = 1 - abs_start / total (total is total_len) and len_norm = min(wcount, max_words) /
\* max_words, as the exact fraction num/den (den = 5 * total * max_words)
score(occ, abs_start, total, wcount, max_words, imperative) ==
  [num |-> (2 * occ + imperative) * total * max_words
           + (total - abs_start) * max_words
           + Min(wcount, max_words) * total,
   den |-> 5 * total * max_words]

\* floor(q + r / den, scaled by scale) and what is left over, one decimal
\* digit at a time (r < den; scale is a power of ten); 10 * r is taken as
\* 5 * (2 * r), which keeps the products of a long transcript small
RECURSIVE ScaledDiv(_, _, _, _)
ScaledDiv(q, r, den, scale) ==
  IF scale = 1 THEN [q |-> q, r |-> r]
  ELSE LET twice == 2 * r
           rest == 5 * (twice % den)
       IN  ScaledDiv(10 * q + 5 * (twice \div den) + rest \div den,
                     rest % den, den, scale \div 10)

\* quant(u.score): round(x * 1_000_000), halves to the even neighbour
quant(x) ==
  LET d == ScaledDiv(x.num \div x.den, x.num % x.den, x.den, QuantScale)
  IN  IF 2 * d.r < x.den THEN d.q
      ELSE IF 2 * d.r > x.den THEN d.q + 1
      ELSE IF d.q % 2 = 0 THEN d.q ELSE d.q + 1

\* key (u.start, u.text)
ByStartText(u, v) ==
  \/ u.start < v.start
  \/ u.start = v.start /\ StrLess(u.text, v.text)

\* key (-quant(u.score), u.start, u.text)
ByWindowRank(u, v) ==
  \E qu \in { quant(u.score) }, qv \in { quant(v.score) } :
     \/ qu > qv
     \/ qu = qv /\ ByStartText(u, v)

\* equal quantized scores broken by the later start
ByRank_TiesLatest(u, v) ==
  \E qu \in { quant(u.score) }, qv \in { quant(v.score) } :
     \/ qu > qv
     \/ qu = qv /\ ByStartText(v, u)

\* key (-quant(u.score), u.window, u.start, u.text)
ByRank(u, v) ==
  \E qu \in { quant(u.score) }, qv \in { quant(v.score) } :
     \/ qu > qv
     \/ /\ qu = qv
        /\ \/ u.window < v.window
           \/ u.window = v.window /\ ByStartText(u, v)

\* key(u) < key(v) for the three sort keys of extract_deterministic_units
KeyLess(key, u, v) ==
  CASE key = "rank" -> ByRank(u, v)
    [] key = "window_rank" -> ByWindowRank(u, v)
    [] OTHER -> ByStartText(u, v)

\* the number of elements that list.sort with a key puts before each
\* element; elements with equal keys keep their order (held as a tuple, so
\* that it is computed once)
Before(seq, key) ==
  <<>> \o [i \in DOMAIN seq |->
            Cardinality({ j \in DOMAIN seq :
                            \/ KeyLess(key, seq[j], seq[i])
                            \/ ~KeyLess(key, seq[i], seq[j]) /\ j < i })]

\* the elements at the places these numbers give them
Placed(seq, before) ==
  <<>> \o [p \in DOMAIN seq |->
            seq[CHOOSE i \in DOMAIN seq : before[i] = p - 1]]

\* the sequence sorted by list.sort with a key
SortBy(seq, key) == Placed(seq, Before(seq, key))

\* seq[:n]
Take(seq, n) ==
  IF n >= 0 THEN SubSeq(seq, 1, Min(n, Len(seq)))
  ELSE SubSeq(seq, 1, Len(seq) + n)

\* ------------------------------------ extract_deterministic_units: stages
\* the sentence as it was matched, blanks around it included
SentenceTextOf_Untrimmed(trans, w, sn) ==
  Slice(trans, w.start + sn.start, w.start + sn.end)

\* the text of sentence sn of window w: transcript[abs_start:abs_end].strip()
SentenceTextOf(trans, w, sn) ==
  Strip(Slice(trans, w.start + sn.start, w.start + sn.end))

\* the Unit built for sentence sn of window w
UnitOf(trans, o, w, sn) ==
  LET abs_start == w.start + sn.start
      abs_end == w.start + sn.end
      text == SentenceTextOf(trans, w, sn)
  IN  [id |-> unit_id(w.index, abs_start, abs_end),
       text |-> text, start |-> abs_start, end |-> abs_end,
       score |-> score(occurrences(canon_text(trans), canon_text(text)),
                       abs_start, Len(trans), words(text), o.max_words,
                       imperative_boost(text)),
       window |-> w.index]

\* a Unit for every sentence, whatever its word count
SentenceUnit_AnyLength(trans, o, w, sn) == << UnitOf(trans, o, w, sn) >>

\* the Unit of sentence sn of window w, or nothing when its word count is
\* outside the band ("continue")
SentenceUnit(trans, o, w, sn) ==
  LET wcount == words(SentenceTextOf(trans, w, sn))
  IN  IF wcount < o.min_words \/ wcount > o.max_words THEN <<>>
      ELSE << UnitOf(trans, o, w, sn) >>

RECURSIVE Concat(_)
Concat(seqs) == IF seqs = <<>> THEN <<>> ELSE Head(seqs) \o Concat(Tail(seqs))

\* window_cands of window w, before the quota
WindowCands(trans, o, w) ==
  LET sentences == sentence_split(w.text)
  IN  Concat([i \in DOMAIN sentences |-> SentenceUnit(trans, o, w, sentences[i])])

\* what one window adds to candidates: "if per_window_quota and
\* len(window_cands) > per_window_quota" the first per_window_quota of its
\* candidates in rank order, else all of them
Quota(window_cands, per_window_quota) ==
  IF /\ per_window_quota # <<>>
     /\ per_window_quota[1] # 0
     /\ Len(window_cands) > per_window_quota[1]
  THEN Take(SortBy(window_cands, "window_rank"), per_window_quota[1])
  ELSE window_cands

\* candidates when the loop over the windows has ended
Candidates_of(trans, o) ==
  LET windows == split_into_windows_by_chars(trans, o.window_chars)
  IN  Concat([i \in DOMAIN windows |->
                Quota(WindowCands(trans, o, windows[i]), o.per_window_quota)])

\* no candidate dropped for its canonical text
ExactDedup_Off(cands) == cands

\* list(by_key.values()) in insertion order: one entry per canonical text,
\* at the place of the text's first candidate, holding the candidate of
\* that text with the smallest start (the first of them in the list)
ExactDedup(cands) ==
  LET key == [i \in DOMAIN cands |-> canon_text(cands[i].text)]
      first == { i \in DOMAIN cands : \A j \in DOMAIN cands : key[j] = key[i] => i <= j }
      kept(i) ==
        CHOOSE k \in DOMAIN cands :
          /\ key[k] = key[i]
          /\ \A j \in DOMAIN cands :
               key[j] = key[i] =>
                 \/ cands[k].start < cands[j].start
                 \/ cands[k].start = cands[j].start /\ k <= j
  IN  [n \in 1..Cardinality(first) |->
         cands[kept(CHOOSE x \in first : Cardinality({y \in first : y < x}) = n - 1)]]

\* the orders in which a collection may hand out its elements
IterationOrders == { "insertion", "reversed" }

Iterate(seq, order) ==
  IF order = "reversed" THEN Reverse(seq) ELSE seq

\* the pass comparing a candidate with every element kept so far
RECURSIVE Collapse_AgainstAll(_, _, _)
Collapse_AgainstAll(kept, rest, threshold) ==
  IF rest = <<>> THEN kept
  ELSE IF \E k \in DOMAIN kept :
            jaccard3_at_least(Head(rest).text, kept[k].text, threshold)
       THEN Collapse_AgainstAll(kept, Tail(rest), threshold)
       ELSE Collapse_AgainstAll(Append(kept, Head(rest)), Tail(rest), threshold)

\* the near-duplicate pass over the sorted list: u is skipped when it is
\* as similar as the threshold to the last element kept
RECURSIVE Collapse(_, _, _)
Collapse(kept, rest, threshold) ==
  IF rest = <<>> THEN kept
  ELSE IF /\ kept # <<>>
          /\ jaccard3_at_least(Head(rest).text, kept[Len(kept)].text, threshold)
       THEN Collapse(kept, Tail(rest), threshold)
       ELSE Collapse(Append(kept, Head(rest)), Tail(rest), threshold)

\* the near-duplicate pass over deduped as it is iterated, not sorted
Survivors_Unsorted(trans, o, order) ==
  Collapse(<<>>, Iterate(ExactDedup(Candidates_of(trans, o)), order),
           o.jaccard_threshold)

\* collapsed after the near-duplicate pass, deduped being iterated in the
\* given order before it is sorted
Survivors(trans, o, order) ==
  Collapse(<<>>,
           SortBy(Iterate(ExactDedup(Candidates_of(trans, o)), order), "start_text"),
           o.jaccard_threshold)

\* target_count as extract_deterministic_units determines it
target_count_of(o, total) ==
  IF o.target_count # <<>> THEN o.target_count[1]
  ELSE clamp(round(total, TargetDivisor), TargetMin, TargetMax)

\* every survivor selected
Select_All(survivors, target_count) == survivors

\* collapsed.sort(rank key); selected = collapsed[:target_count]
Select(survivors, target_count) == Take(SortBy(survivors, "rank"), target_count)

\* the final order left as the rank order
Output_Unsorted(selected) == selected

\* selected.sort(key=lambda u: (u.start, u.text))
Output(selected) == SortBy(selected, "start_text")

\* extract_deterministic_units at its return: the locals total_len and
\* collapsed (in the order of the near-duplicate pass) and ExtractResult.units
extract_deterministic_units(trans, o, order) ==
  LET survivors == Survivors(trans, o, order)
  IN  [total_len |-> Len(trans),
       collapsed |-> survivors,
       units |-> Output(Select(survivors, target_count_of(o, Len(trans))))]

\* ------------------------------------ extract_deterministic_units: inputs
\* longest transcript, in sentences
MaxPieces == 3
\* executions of extract_deterministic_units on one input
MaxExecutions == 2

\* what the transcripts are made of: a sentence, the same sentence in other
\* characters ("A B_!" has the canonical text of "a b."), an imperative of
\* three words, and a sentence that shares a trigram with the first
Pieces ==
  { <<"a", " ", "b", ".">>,
    <<"A", " ", "B_", "!">>,
    <<"u", "s", "e", " ", "a", " ", "b", ".">>,
    <<"a", " ", "b", " ", "c", ".">> }

\* " ".join(pieces)
RECURSIVE Join(_)
Join(pieces) ==
  IF pieces = <<>> THEN <<>>
  ELSE IF Len(pieces) = 1 THEN pieces[1]
  ELSE pieces[1] \o <<" ">> \o Join(Tail(pieces))

Transcripts == { Join(ps) : ps \in SeqsUpTo(Pieces, MaxPieces) }

\* windows of 7 characters (one short sentence, or a part of a longer
\* one), or one window for the whole transcript, with or without a quota
\* of one candidate (no window of 7 characters holds two candidates); a
\* band that drops single words, or one that drops three words; the
\* default threshold, or one the fourth piece reaches against the first
OptionSets ==
  { [window_chars |-> wq[1], target_count |-> tc, min_words |-> band[1],
     max_words |-> band[2], jaccard_threshold |-> th,
     per_window_quota |-> wq[2]] :
      wq \in { <<7, <<>>>>, <<DefaultOptions.window_chars, <<>>>>,
               <<DefaultOptions.window_chars, <<1>>>> },
      tc \in {<<>>, <<1>>},
      band \in {<<2, 3>>, <<1, 2>>},
      th \in {DefaultOptions.jaccard_threshold, [num |-> 30, den |-> 100]} }

\* -------------------------------------- extract_deterministic_units: calls
cacheVars == << file, data, data2, call, ret, runnerVars >>

\* extract_deterministic_units(transcript, opts), the exact-deduplicated
\* candidates being iterated in the given order
Extract(order) ==
  /\ executions < MaxExecutions
  /\ \E r \in { extract_deterministic_units(transcript, opts, order) } :
        /\ total_len' = r.total_len
        /\ collapsed' = r.collapsed
        /\ units' = r.units
  /\ executions' = executions + 1
  /\ UNCHANGED << transcript, opts, splitVars, wrapperVars, loopVars,
                  cacheVars >>

InitExtract ==
  /\ transcript \in Transcripts
  /\ opts \in OptionSets
  /\ total_len = 0
  /\ collapsed = <<>>
  /\ units = <<>>
  /\ executions = 0
  /\ NoSplit
  /\ NoWindowLoop
  /\ NoWrapperCall
  /\ file = NoFile
  /\ data2 = _load(file)
  /\ call = NoCall
  /\ ret = FALSE
  /\ NewRunnerState(file, CHOOSE m \in Models : TRUE,
                    CHOOSE tv \in TemplateVersions : TRUE, 0)

NextExtract == \E order \in IterationOrders : Extract(order)

SpecExtract == InitExtract /\ [][NextExtract]_vars

\* ------------------------------- the selection stage on a long transcript
\* extract_deterministic_units from "Global ranking" on, entered with the
\* locals total_len and collapsed of a transcript too long to be held here
\* character by character

\* the n-th survivor of a transcript made of the sentences "a b c 101.",
\* "a b c 102.", "use b c 103.", ... (every third one an imperative), each
\* at offset 14 * (n - 1) and followed by blanks up to the next one, the rest
\* of the transcript holding no sentence. A sentence match starts where the
\* previous one ended; each sentence occurs once (occurrences gives 2); all
\* lie in window 0
SentenceText(n) ==
  (IF n % 3 = 0 THEN <<"u", "s", "e">> ELSE <<"a">>)
    \o <<" ", "b", " ", "c", " ">> \o Decimal(100 + n) \o <<".">>

LongUnit(n, total) ==
  LET start == IF n = 1 THEN 0 ELSE 14 * (n - 2) + Len(SentenceText(n - 1))
      end == 14 * (n - 1) + Len(SentenceText(n))
  IN  [id |-> unit_id(0, start, end), text |-> SentenceText(n),
       start |-> start, end |-> end,
       score |-> score(2, start, total, DefaultOptions.min_words,
                       DefaultOptions.max_words, IF n % 3 = 0 THEN 1 ELSE 0),
       window |-> 0]

\* numbers of survivors: none, two, and just around the targets met below
SurvivorCounts ==
  { 0, 2, TargetMin + 1, TargetMin + 3, TargetMax - 1, TargetMax + 1 }

\* transcript lengths in steps of half the divisor, where round() meets
\* its halves: below the clamp, at its lower end (targets 40, 40, 41, 42),
\* at its upper end (targets 88, 89, 90) and far above it, at 2,500,000
\* characters, where neighbouring sentences differ by less than one
\* millionth in score
TotalLens ==
  { (TargetDivisor \div 2) * k :
      k \in {0, 3} \cup ((2 * TargetMin)..(2 * TargetMin + 3))
             \cup ((2 * TargetMax - 3)..(2 * TargetMax - 1))
             \cup {2000} }

TargetCounts == { <<>>, <<0>>, <<1>>, <<TargetMin + 5>> }

InitSelect ==
  /\ transcript = <<>>
  /\ total_len \in TotalLens
  /\ \E n \in SurvivorCounts :
        /\ 14 * n <= total_len
        /\ collapsed = [i \in 1..n |-> LongUnit(i, total_len)]
  /\ \E tc \in TargetCounts : opts = [DefaultOptions EXCEPT !.target_count = tc]
  /\ units = <<>>
  /\ executions = 0
  /\ NoSplit
  /\ NoWindowLoop
  /\ NoWrapperCall
  /\ file = NoFile
  /\ data2 = _load(file)
  /\ call = NoCall
  /\ ret = FALSE
  /\ NewRunnerState(file, CHOOSE m \in Models : TRUE,
                    CHOOSE tv \in TemplateVersions : TRUE, 0)

\* the rest of extract_deterministic_units: rank, select, sort for output
SelectStage ==
  /\ executions < MaxExecutions
  /\ units' = Output(Select(collapsed, target_count_of(opts, total_len)))
  /\ executions' = executions + 1
  /\ UNCHANGED << transcript, opts, total_len, collapsed, splitVars,
                  wrapperVars, loopVars, cacheVars >>

SpecSelect == InitSelect /\ [][SelectStage]_vars

\* ------------------------------- split_into_windows_by_chars, step by step
\* iterations followed beyond len(transcript), the most a loop whose cursor
\* advances can make
MaxExtraWindows == 2

\* window_chars: none, one character, less than a sentence, one short
\* sentence, the default
WindowChars == {0, 1, 3, 7, DefaultOptions.window_chars}

\* split_into_windows_by_chars(transcript, opts.window_chars) has been
\* entered: result = [], i = 0
InitSplit ==
  /\ transcript \in Transcripts
  /\ \E wc \in WindowChars : opts = [DefaultOptions EXCEPT !.window_chars = wc]
  /\ split_pc = "loop"
  /\ cursor = 0
  /\ window_list = <<>>
  /\ NoWindowLoop
  /\ NoWrapperCall
  /\ total_len = 0
  /\ collapsed = <<>>
  /\ units = <<>>
  /\ executions = 0
  /\ file = NoFile
  /\ data2 = _load(file)
  /\ call = NoCall
  /\ ret = FALSE
  /\ NewRunnerState(file, CHOOSE m \in Models : TRUE,
                    CHOOSE tv \in TemplateVersions : TRUE, 0)

\* one iteration of "while i < length"
SplitStep ==
  /\ split_pc = "loop"
  /\ cursor < Len(transcript)
  /\ Len(window_list) < Len(transcript) + MaxExtraWindows
  /\ \E end \in { WindowEnd(transcript, opts.window_chars, cursor) } :
        /\ window_list' = Append(window_list,
                                 Window(transcript, cursor, end, Len(window_list)))
        /\ cursor' = end
  /\ UNCHANGED << split_pc, transcript, opts, total_len, collapsed, units,
                  executions, wrapperVars, loopVars, cacheVars >>

\* the loop condition fails: return result
SplitReturn ==
  /\ split_pc = "loop"
  /\ ~(cursor < Len(transcript))
  /\ split_pc' = "returned"
  /\ UNCHANGED << cursor, window_list, transcript, opts, total_len, collapsed,
                  units, executions, wrapperVars, loopVars, cacheVars >>

NextSplit == SplitStep \/ SplitReturn

SpecSplit == InitSplit /\ [][NextSplit]_vars

\* ----------------------------------- DeterministicExtractor.extract calls
\* what subprocess.run of the Node CLI can come to, as extract() tells the
\* cases apart: it times out, exits non-zero, prints no JSON, or prints a
\* JSON value that _validate_output rejects or accepts
CliOutcomes ==
  { "timeout", "nonzero", "not_json", "missing_fields", "units_not_list",
    "unit_missing_fields", "valid" }

\* the exception extract() raises for the outcome, NoError when it returns
\* the output
ExtractError(outcome) ==
  CASE outcome = "timeout" ->
         [type |-> "RuntimeError", msg |-> "Extraction timed out"]
    [] outcome = "nonzero" ->
         [type |-> "RuntimeError", msg |-> "Extraction failed"]
    [] outcome = "not_json" ->
         [type |-> "RuntimeError", msg |-> "Invalid JSON output from extractor"]
    [] outcome = "missing_fields" ->
         [type |-> "ValueError", msg |-> "Missing required fields"]
    [] outcome = "units_not_list" ->
         [type |-> "ValueError", msg |-> "'units' must be a list"]
    [] outcome = "unit_missing_fields" ->
         [type |-> "ValueError", msg |-> "Unit missing required fields"]
    [] OTHER -> NoError

\* transcripts without a character that is not whitespace
BlankTranscripts == { <<>>, <<" ">>, <<" ", " ", "\n", "\t", " ">> }

\* an extractor has been constructed (the CLI script was found)
InitWrapper ==
  /\ transcript \in BlankTranscripts \cup Transcripts
  /\ opts = DefaultOptions
  /\ NoWrapperCall
  /\ NoSplit
  /\ NoWindowLoop
  /\ total_len = 0
  /\ collapsed = <<>>
  /\ units = <<>>
  /\ executions = 0
  /\ file = NoFile
  /\ data2 = _load(file)
  /\ call = NoCall
  /\ ret = FALSE
  /\ NewRunnerState(file, CHOOSE m \in Models : TRUE,
                    CHOOSE tv \in TemplateVersions : TRUE, 0)

\* extract(video_id, transcript): the input is serialized, the CLI is run
\* on it, and its outcome is raised or returned
WrapperExtract(outcome) ==
  /\ cli_runs < MaxExecutions
  /\ cli_runs' = cli_runs + 1
  /\ error' = ExtractError(outcome)
  /\ extract_pc' = IF ExtractError(outcome) = NoError THEN "returned" ELSE "raised"
  /\ UNCHANGED << transcript, opts, total_len, collapsed, units, executions,
                  splitVars, loopVars, cacheVars >>

NextWrapper == \E outcome \in CliOutcomes : WrapperExtract(outcome)

SpecWrapper == InitWrapper /\ [][NextWrapper]_vars

\* --------------------------------------- compute_normalizer_signature calls
\* longest taxonomy list
MaxTaxonomy == 3

SigTemplateVersions == {"v2.1", "v2.2"}

\* taxonomy lists, with their orders and repetitions
Taxonomies == SeqsUpTo({"technique", "pattern", "use-case"}, MaxTaxonomy)

\* compute_normalizer_signature(model, template_version, taxonomy)
SignatureCall(model, template_version, taxonomy) ==
  /\ call' = [name |-> "compute_normalizer_signature", model |-> model,
              template_version |-> template_version, taxonomy |-> taxonomy]
  /\ ret' = compute_normalizer_signature(model, template_version, taxonomy)
  /\ UNCHANGED << file, data, data2, runnerVars, extractorVars >>

NextSignature ==
  \E model \in Models, tv \in SigTemplateVersions, taxonomy \in Taxonomies :
    SignatureCall(model, tv, taxonomy)

SpecSignature == InitCache /\ [][NextSignature]_vars

\* ------------------------- extract_deterministic_units: the window loop
\* per_window_quota: not set, zero, one, two
Quotas == { <<>>, <<0>>, <<1>>, <<2>> }

\* one short sentence to a window, or the whole transcript in one window
LoopOptionSets ==
  { [DefaultOptions EXCEPT !.window_chars = wc, !.min_words = 2,
                           !.max_words = 3, !.per_window_quota = quota] :
      wc \in {7, DefaultOptions.window_chars}, quota \in Quotas }

\* extract_deterministic_units(transcript, opts) has split the transcript
\* and is about to enter "for w in windows" with candidates = []
InitLoop ==
  /\ transcript \in Transcripts
  /\ opts \in LoopOptionSets
  /\ split_pc = "returned"
  /\ cursor = Len(transcript)
  /\ window_list = split_into_windows_by_chars(transcript, opts.window_chars)
  /\ window_no = 0
  /\ unit_candidates = <<>>
  /\ NoWrapperCall
  /\ total_len = Len(transcript)
  /\ collapsed = <<>>
  /\ units = <<>>
  /\ executions = 0
  /\ file = NoFile
  /\ data2 = _load(file)
  /\ call = NoCall
  /\ ret = FALSE
  /\ NewRunnerState(file, CHOOSE m \in Models : TRUE,
                    CHOOSE tv \in TemplateVersions : TRUE, 0)

\* one iteration of "for w in windows": the sentences of the window are
\* filtered and scored into window_cands, and candidates is extended by
\* them or, under the quota, by the first of them
WindowIteration ==
  /\ window_no < Len(window_list)
  /\ unit_candidates' =
        unit_candidates
          \o Quota(WindowCands(transcript, opts, window_list[window_no + 1]),
                   opts.per_window_quota)
  /\ window_no' = window_no + 1
  /\ UNCHANGED << transcript, opts, total_len, collapsed, units, executions,
                  splitVars, wrapperVars, cacheVars >>

SpecLoop == InitLoop /\ [][WindowIteration]_vars

\* ---------------------------------------------------------------- claims
\* run() has returned a result
Returned == pc = "idle" /\ path \in {"cache", "fresh", "fallback"}

\* this step is the start of a run() call
IsRunStart == pc = "idle" /\ path' \in {"pending", "cache", "raised"}

\* this step is one normalize call of a run()
IsAttempt == pc = "calling"

CandKeys(v, cands) == { _key(v, cands[i].id) : i \in DOMAIN cands }

DistinctIds(cands) ==
  \A i, j \in DOMAIN cands : cands[i].id = cands[j].id => i = j

\* the unit run() builds from cache record r for the candidate id
UnitFrom(id, r) ==
  [id |-> id, type |-> r.type, name |-> r.name, summary |-> r.summary,
   confidence |-> r.confidence]

\* C1: whenever run() has returned (from cache, from an accepted categorizer
\* answer or from the fallback) the returned units are as many as the
\* candidates and carry the candidates' ids in the candidates' order.
C1_IdsPreserved ==
  Returned =>
    /\ Len(result.units) = Len(candidates)
    /\ \A i \in DOMAIN candidates : result.units[i].id = candidates[i].id

\* a run of two different units returned a categorizer answer after an
\* earlier answer was rejected
C1_Witness ==
  /\ Returned /\ path = "fresh" /\ calls >= 2
  /\ Len(candidates) >= 2 /\ candidates[1].id # candidates[2].id

\* C2: a run() that finds an entry for every candidate once the stale ones
\* are invalidated makes no categorizer call and returns exactly the units
\* the cache records give; and a run() that repeats the previous completed
\* run() of the runner (same video_id, same candidates) is served from cache
\* with no call, returning what the previous cache-served run() returned.
C2_CacheServed ==
  [][ IsRunStart =>
        /\ (\A i \in DOMAIN candidates' :
               _key(video_id', candidates'[i].id) \in DOMAIN data')
            => /\ pc' = "idle" /\ path' = "cache" /\ calls' = 0
               /\ result'.video_id = video_id'
               /\ Len(result'.units) = Len(candidates')
               /\ \A i \in DOMAIN candidates' :
                     result'.units[i] =
                       UnitFrom(candidates'[i].id,
                                data'[_key(video_id', candidates'[i].id)])
        /\ repeat' \in {"cache", "fresh", "fallback"}
            => /\ pc' = "idle" /\ path' = "cache" /\ calls' = 0
               /\ (repeat' = "cache" => result' = result) ]_vars

\* a run() of a non-empty list was repeated after the run() that called the
\* categorizer, and was served from cache
C2_Witness ==
  /\ Returned /\ path = "cache" /\ calls = 0
  /\ repeat \in {"fresh", "fallback"} /\ candidates # <<>>

\* one normalize call of the run() in progress
AttemptStep ==
  pc = "calling" /\ \E o \in Outcomes(video_id, candidates) : Attempt(o)

\* C3: a run() makes its normalize calls one after the other and never more
\* than max_retries + 1 of them; every call, whatever its outcome, counts
\* as one; an accepted answer ends the run() at once; the fallback is built
\* after exactly max_retries + 1 calls.  A run() that is calling can always
\* take its next step, and each step either returns or moves the loop
\* variable one closer to max_retries: so a run() whose calls all return or
\* raise returns after at most max_retries + 1 of them.
C3_BoundedRetry ==
  /\ [](/\ calls <= max_retries + 1
        /\ (pc = "calling" => /\ calls = attempt /\ attempt <= max_retries
                              /\ ENABLED AttemptStep)
        /\ (path = "fallback" => pc = "idle" /\ calls = max_retries + 1)
        /\ (path = "fresh" => pc = "idle" /\ calls >= 1)
        /\ (path = "cache" => pc = "idle" /\ calls = 0))
  /\ [][ IsAttempt =>
          /\ calls' = calls + 1
          /\ \/ /\ pc' = "calling" /\ path' = "pending"
                /\ attempt' = attempt + 1 /\ attempt' <= max_retries
             \/ /\ pc' = "idle" /\ path' = "fresh"
                /\ _validate_invariants(result', candidates)
                /\ validate_normalized(result')
             \/ pc' = "idle" /\ path' = "fallback" /\ attempt = max_retries ]_vars

\* the same as a liveness property of FairSpec: under weak fairness of the
\* loop step, a run() that is calling the categorizer returns
RunTerminates == (pc = "calling") ~> (pc = "idle")

\* a runner with retries fell back after all its calls failed
C3_Witness ==
  /\ Returned /\ path = "fallback" /\ max_retries >= 1
  /\ calls = max_retries + 1

\* C4: run() never raises, and whatever it returns satisfies
\* NORMALIZED_SCHEMA: exactly the five fields per unit, a taxonomy type, a
\* confidence in [0, 1], name and summary non-empty and within their limits.
C4_SchemaValid ==
  /\ path # "raised"
  /\ Returned => validate_normalized(result)

\* C5: a run() that ended in the fallback made max_retries + 1 calls and
\* returns, for each candidate in order, the unit with the candidate's id,
\* type "component", name "(unclear)", the first 280 characters of the
\* candidate's text as summary and confidence 0.3, under the run's video_id:
\* the batch is a function of video_id and candidates alone.
C5_Fallback ==
  (pc = "idle" /\ path = "fallback") =>
    /\ calls = max_retries + 1
    /\ DOMAIN result = {"video_id", "units"}
    /\ result.video_id = video_id
    /\ Len(result.units) = Len(candidates)
    /\ \A i \in DOMAIN candidates :
         LET u == result.units[i]
             text == candidates[i].text
         IN  /\ DOMAIN u = UnitFields
             /\ u.id = candidates[i].id
             /\ u.type = "component"
             /\ u.name = <<"(", "u", "n", "c", "l", "e", "a", "r", ")">>
             /\ u.confidence = 3
             /\ Len(u.summary) = IF Len(text) < 280 THEN Len(text) ELSE 280
             /\ \A j \in DOMAIN u.summary : u.summary[j] = text[j]

\* a fallback batch was returned for a candidate whose text is longer than
\* the summary keeps
C5_Witness ==
  /\ pc = "idle" /\ path = "fallback"
  /\ \E i \in DOMAIN candidates :
       /\ Len(candidates[i].text) > FallbackSummaryLen
       /\ Len(result.units[i].summary) = FallbackSummaryLen

\* C6: a run() deletes every candidate's entry stored under another
\* signature before it looks whether all are cached, so such a batch goes
\* to the categorizer; and every unit a run() returns from cache is built
\* from a record that was stored under the runner's signature before the
\* run() began.
C6_NoStaleServed ==
  [][ IsRunStart =>
        /\ \A i \in DOMAIN candidates' :
             LET k == _key(video_id', candidates'[i].id)
             IN  (k \in DOMAIN data /\ data[k].normalizer_sig # normalizer_sig)
                 => k \notin DOMAIN data' /\ pc' = "calling"
        /\ path' = "cache" =>
             \A i \in DOMAIN candidates' :
               LET k == _key(video_id', candidates'[i].id)
               IN  /\ k \in DOMAIN data
                   /\ data[k].normalizer_sig = normalizer_sig
                   /\ result'.units[i] = UnitFrom(candidates'[i].id, data[k]) ]_vars

\* a run() is calling the categorizer for a unit whose record on disk was
\* stored under another signature and is gone from the runner's mapping
C6_Witness ==
  /\ pc = "calling"
  /\ \E i \in DOMAIN candidates :
       LET k == _key(video_id, candidates[i].id)
       IN  /\ k \in DOMAIN file.content
           /\ file.content[k].normalizer_sig # normalizer_sig
           /\ k \notin DOMAIN data

\* C7: the result of the run() that primed the cache (an accepted answer or
\* a fallback) equals, video_id included, the result the next run() with
\* the same video_id and candidates returns from cache.
C7_PrimingEqualsCached ==
  [][ (IsRunStart /\ repeat' \in {"fresh", "fallback"}) => result' = result ]_vars

\* C8: once a run() that called the categorizer (accepted answer or
\* fallback) has returned for candidates with pairwise distinct ids, each
\* candidate's key holds a record with the runner's signature and the
\* returned unit's type, name, summary and confidence, in the runner's
\* mapping and in the cache file.
C8_Saved ==
  (pc = "idle" /\ path \in {"fresh", "fallback"} /\ DistinctIds(candidates)) =>
    /\ file.exists
    /\ \A i \in DOMAIN candidates :
         LET k == _key(video_id, candidates[i].id)
             u == result.units[i]
         IN  /\ k \in DOMAIN data
             /\ data[k] = [type |-> u.type, name |-> u.name,
                           summary |-> u.summary, confidence |-> u.confidence,
                           normalizer_sig |-> normalizer_sig]
             /\ k \in DOMAIN file.content
             /\ file.content[k] = data[k]

\* an accepted answer for two different units has been returned
C8_Witness ==
  /\ pc = "idle" /\ path = "fresh"
  /\ Len(candidates) >= 2 /\ DistinctIds(candidates)

\* C9 as stated: a run() deletes a record only when its signature differs
\* from the runner's, and a record stored under the runner's signature is
\* still there, unchanged, after every step of every later run().
C9_NeverOverwritten ==
  [][ (IsRunStart \/ IsAttempt) =>
        \A k \in DOMAIN data :
          /\ k \notin DOMAIN data' => data[k].normalizer_sig # normalizer_sig
          /\ data[k].normalizer_sig = normalizer_sig
             => k \in DOMAIN data' /\ data'[k] = data[k] ]_vars

\* C9 as amended: a record is deleted only by the invalidation of a run()
\* that has its key among its candidates, and only when its signature
\* differs from the runner's; a record stored under the runner's signature
\* stays unchanged across the start of every run(), across every run()
\* served from cache and across every run() whose candidates' keys do not
\* include its key.
C9_KeptUnlessRenormalized ==
  [][ (IsRunStart \/ IsAttempt) =>
        \A k \in DOMAIN data :
          /\ k \notin DOMAIN data'
             => /\ IsRunStart
                /\ data[k].normalizer_sig # normalizer_sig
                /\ k \in CandKeys(video_id', candidates')
          /\ (/\ data[k].normalizer_sig = normalizer_sig
              /\ \/ IsRunStart
                 \/ path' = "cache"
                 \/ k \notin CandKeys(video_id', candidates'))
             => k \in DOMAIN data' /\ data'[k] = data[k] ]_vars

\* a run() that called the categorizer has returned, and a record under the
\* runner's signature whose key is not among the run's candidates is in
\* the mapping
C9_Witness ==
  /\ pc = "idle" /\ path \in {"fresh", "fallback"}
  /\ \E k \in DOMAIN data :
       /\ k \notin CandKeys(video_id, candidates)
       /\ data[k].normalizer_sig = normalizer_sig

\* C10: invalidate_if_sig_mismatch(video_id, unit_id, current_sig) returns
\* True exactly when the key has an entry whose normalizer_sig differs from
\* current_sig, and then the mapping is the old one without that key;
\* otherwise the mapping is unchanged.  The file is never touched.
C10_Invalidate ==
  [][ call'.name = "invalidate_if_sig_mismatch" =>
        LET k == _key(call'.video_id, call'.unit_id)
            stale == k \in DOMAIN data
                     /\ data[k].normalizer_sig # call'.current_sig
        IN  /\ ret' = stale
            /\ stale => /\ DOMAIN data' = (DOMAIN data) \ {k}
                        /\ \A x \in DOMAIN data' : data'[x] = data[x]
            /\ ~stale => data' = data
            /\ file' = file ]_vars

\* an entry was removed while an entry under the signature asked for stayed
C10_Witness ==
  /\ call.name = "invalidate_if_sig_mismatch" /\ ret
  /\ _key(call.video_id, call.unit_id) \notin DOMAIN data
  /\ \E x \in DOMAIN data : data[x].normalizer_sig = call.current_sig

\* C11: a run() adds, replaces or deletes only the keys
\* "{video_id}:{c.id}" of its own candidates: across each of its steps every
\* other key of the mapping is present before exactly when it is present
\* after, with the same record, whatever signature the record carries.
C11_OnlyOwnKeys ==
  [][ (IsRunStart \/ IsAttempt) =>
        \A k \in ((DOMAIN data) \cup (DOMAIN data'))
                   \ CandKeys(video_id', candidates') :
          k \in DOMAIN data /\ k \in DOMAIN data' /\ data'[k] = data[k] ]_vars

\* a run() under a new signature called the categorizer and returned, and a
\* record of another unit stored under the old signature is still there
C11_Witness ==
  /\ pc = "idle" /\ path \in {"fresh", "fallback"} /\ candidates # <<>>
  /\ \E k \in DOMAIN data :
       /\ k \notin CandKeys(video_id, candidates)
       /\ data[k].normalizer_sig # normalizer_sig

\* C12: save() of one instance writes its own mapping and nothing else:
\* the file afterwards is that instance's mapping, and every key the file
\* held that the saving instance does not hold (a key another instance
\* had set and saved) is gone from the file.
C12_LastSaveWins ==
  [][ call'.name = "save" =>
        LET mine == Mapping(call'.instance)
        IN  /\ file'.exists /\ file'.json
            /\ file'.content = mine
            /\ \A k \in (DOMAIN file.content) \ (DOMAIN mine) :
                  k \notin DOMAIN file'.content ]_vars

\* each instance set a key the other does not hold, instance 1 saved, then
\* instance 2 saved: the file is instance 2's mapping, and the key only
\* instance 1 had written, which was in the file, is no longer in it
C12_Witness ==
  /\ call.name = "save" /\ call.instance = 2
  /\ file.content = data2
  /\ \E k1 \in DOMAIN data, k2 \in DOMAIN data2 :
       /\ k1 \notin DOMAIN data2 /\ k2 \notin DOMAIN data
       /\ k1 \in DOMAIN call.found.content
       /\ k1 \notin DOMAIN file.content

\* C13: the file changes only on save(): set(), invalidate_if_sig_mismatch()
\* and the construction of a cache leave it as it is and change only the
\* mapping of the instance they are called on; save() writes the saver's
\* mapping and changes no mapping; a cache constructed on the path starts
\* with the mapping the file holds (the one of the last save(), record for
\* record), or with the empty mapping when there is no file.
C13_FileOnlyOnSave ==
  [][ /\ call'.name \in {"set", "invalidate_if_sig_mismatch", "__init__"} =>
          /\ file' = file
          /\ \A j \in Instances \ {call'.instance} : MappingAfter(j) = Mapping(j)
      /\ call'.name = "save" =>
          /\ file'.content = Mapping(call'.instance)
          /\ data' = data /\ data2' = data2
      /\ call'.name = "__init__" =>
          MappingAfter(call'.instance) =
            IF file.exists THEN file.content ELSE EmptyMap ]_vars

\* instance 2 was constructed after instance 1 saved one record and then
\* set another without saving: it holds the saved record and not the other
C13_Witness ==
  /\ call.name = "__init__" /\ call.instance = 2
  /\ file.exists /\ data2 = file.content /\ DOMAIN data2 # {}
  /\ \E k \in DOMAIN data : k \notin DOMAIN data2

\* C14: whatever the cache file held when the runner was constructed (no
\* file, text that is not JSON, JSON whose records lack their fields), no
\* later run() raises because of it.
C14_DamagedFileHarmless == path # "raised"

\* C15: set() or invalidate_if_sig_mismatch() called for one
\* (video_id, unit_id) pair leaves get() and has() of every other pair as
\* they were: distinct pairs have distinct keys.
C15_PairsSeparate ==
  [][ call'.name \in {"set", "invalidate_if_sig_mismatch"} =>
        \A v \in VideoIds, u \in UnitIds :
          <<v, u>> # <<call'.video_id, call'.unit_id>> =>
            /\ get(data', v, u) = get(data, v, u)
            /\ has(data', v, u) = has(data, v, u) ]_vars

\* this step is an execution of extract_deterministic_units
IsExtract == executions' = executions + 1

\* C16: every further execution of extract_deterministic_units on the same
\* transcript and options returns the unit sequence the execution before it
\* returned (ids, texts, offsets, windows, scores, order), in whatever order
\* the exact-deduplicated candidates are iterated.
C16_Deterministic ==
  [][ (IsExtract /\ executions >= 1) => units' = units ]_vars

\* a second execution has returned two units or more
C16_Witness == executions >= 2 /\ Len(units) >= 2

\* C17: the units returned are in ascending order of (start, text).
C17_SortedByStart ==
  executions >= 1 =>
    \A i \in 1..(Len(units) - 1) :
      \/ units[i].start < units[i + 1].start
      \/ /\ units[i].start = units[i + 1].start
         /\ ~StrLess(units[i + 1].text, units[i].text)

\* two units were returned of which the later one ranks higher
C17_Witness ==
  /\ executions >= 1 /\ Len(units) >= 2
  /\ quant(units[1].score) < quant(units[2].score)

\* C18: the number of units returned is the smaller of the target and the
\* number of survivors of the two deduplication passes, the target being
\* target_count when it is set (n >= 0) and round(total_len / 2500) clamped
\* to 40..90 when it is not; the result is never longer than the target.
C18_Count ==
  executions >= 1 =>
    LET half == (2 * total_len) \div 2500
        nearest == IF (2 * total_len) % 2500 = 0 /\ half % 2 = 1
                   THEN IF ((half - 1) \div 2) % 2 = 0
                        THEN (half - 1) \div 2 ELSE (half + 1) \div 2
                   ELSE (half + 1) \div 2
        target == IF opts.target_count # <<>> THEN opts.target_count[1]
                  ELSE IF nearest < 40 THEN 40
                  ELSE IF nearest > 90 THEN 90 ELSE nearest
    IN  /\ Len(units) = IF target < Len(collapsed) THEN target ELSE Len(collapsed)
        /\ Len(units) <= target

\* with no target_count set, more survivors than the derived target were
\* cut down to it, the target lying strictly between 40 and 90
C18_Witness ==
  /\ executions >= 1 /\ opts.target_count = <<>>
  /\ Len(units) < Len(collapsed)
  /\ Len(units) > 40 /\ Len(units) < 90

\* the sentences extract_deterministic_units reads from the transcript, as
\* pairs of a window and a sentence of its text
SentencesOf(trans, o) ==
  LET windows == split_into_windows_by_chars(trans, o.window_chars)
  IN  UNION { { <<windows[i], sn>> : sn \in Range(sentence_split(windows[i].text)) } :
                i \in DOMAIN windows }

InBand(text, o) == o.min_words <= words(text) /\ words(text) <= o.max_words

\* C19: every unit of a result has a word count within the configured
\* band min_words..max_words (the whole-window fallback sentence passes
\* through the same filter, so no unit is excepted).
C19_WordBand ==
  executions >= 1 => \A i \in DOMAIN units : InBand(units[i].text, opts)

\* a result holding a fallback unit (a window without a sentence end; its
\* text holds no terminator) from a transcript in which another sentence
\* was left out for its word count
C19_Witness ==
  /\ executions >= 1
  /\ \E i \in DOMAIN units : Range(units[i].text) \cap Terminators = {}
  /\ \E p \in SentencesOf(transcript, opts) :
        ~InBand(SentenceTextOf(transcript, p[1], p[2]), opts)

\* the transcripts that repeat one sentence p two or more times
Repeats(p) == { Join([i \in 1..n |-> p]) : n \in 2..MaxPieces }

\* C20: no two units of a result have the same canon_text; a unit has the
\* smallest start of all candidates entering deduplication with its
\* canonical text; a transcript that repeats one sentence yields at most
\* one unit with that sentence's canonical text, and it starts where the
\* first occurrence starts (offset 0).
C20_ExactDedup ==
  executions >= 1 =>
    /\ \A i, j \in DOMAIN units :
          canon_text(units[i].text) = canon_text(units[j].text) => i = j
    /\ \A c \in Range(Candidates_of(transcript, opts)) :
          \A i \in DOMAIN units :
            canon_text(c.text) = canon_text(units[i].text)
              => units[i].start <= c.start
    /\ \A p \in Pieces :
          (p[Len(p)] \in Terminators /\ transcript \in Repeats(p)) =>
            /\ Cardinality({ i \in DOMAIN units :
                               canon_text(units[i].text) = canon_text(p) }) <= 1
            /\ \A i \in DOMAIN units :
                  canon_text(units[i].text) = canon_text(p) => units[i].start = 0

\* a sentence repeated MaxPieces times, each occurrence a candidate entering
\* deduplication, and one unit returned for it
C20_Witness ==
  /\ executions >= 1
  /\ \E p \in Pieces :
        /\ p[Len(p)] \in Terminators
        /\ transcript = Join([i \in 1..MaxPieces |-> p])
        /\ Cardinality({ c \in Range(Candidates_of(transcript, opts)) :
                           canon_text(c.text) = canon_text(p) }) = MaxPieces
        /\ \E i \in DOMAIN units : canon_text(units[i].text) = canon_text(p)

\* C21: every unit of a result lies inside the transcript, 0 <= start <
\* end <= len(transcript), and its text is transcript[start:end] with the
\* whitespace at both ends removed, in the transcript's own characters.
C21_OffsetsAndText ==
  executions >= 1 =>
    \A i \in DOMAIN units :
      /\ 0 <= units[i].start
      /\ units[i].start < units[i].end
      /\ units[i].end <= Len(transcript)
      /\ units[i].text = Strip(Slice(transcript, units[i].start, units[i].end))

\* a unit whose match began with a blank that its text does not hold, and
\* whose text is not its own canonical text
C21_Witness ==
  /\ executions >= 1
  /\ \E i \in DOMAIN units :
        /\ Len(units[i].text) < units[i].end - units[i].start
        /\ units[i].text # canon_text(units[i].text)
        /\ "B_" \in Range(units[i].text)

\* C22: the id of every unit of a result is "{window}:{start}-{end}" of its
\* own window, start and end, and no two units of one result have the same
\* id.
C22_Ids ==
  executions >= 1 =>
    /\ \A i \in DOMAIN units :
          units[i].id = Decimal(units[i].window) \o <<":">>
                          \o Decimal(units[i].start) \o <<"-">>
                          \o Decimal(units[i].end)
    /\ \A i, j \in DOMAIN units : units[i].id = units[j].id => i = j

\* units of two windows in one result, one of them ending at an offset of
\* two digits
C22_Witness ==
  /\ executions >= 1
  /\ \E i, j \in DOMAIN units :
        /\ units[i].window < units[j].window
        /\ units[j].end >= 10

\* C23: for window_chars >= 1 the windows returned partition the text: the
\* first starts at 0, each starts where the one before ends, the last ends
\* at len(text), each is non-empty and at most window_chars long and
\* holds text[start:end], the indices are 0, 1, 2, ...; the empty text
\* gives no windows. (The loop returns what the recursive definition used
\* by the extraction gives.)
C23_Partition ==
  (split_pc = "returned" /\ opts.window_chars >= 1) =>
    /\ \A k \in DOMAIN window_list :
          /\ window_list[k].start = IF k = 1 THEN 0 ELSE window_list[k - 1].end
          /\ window_list[k].start < window_list[k].end
          /\ window_list[k].end - window_list[k].start <= opts.window_chars
          /\ window_list[k].end <= Len(transcript)
          /\ window_list[k].text
               = SubSeq(transcript, window_list[k].start + 1, window_list[k].end)
          /\ window_list[k].index = k - 1
    /\ window_list # <<>> => window_list[Len(window_list)].end = Len(transcript)
    /\ transcript = <<>> => window_list = <<>>
    /\ window_list = split_into_windows_by_chars(transcript, opts.window_chars)

\* a text returned in three or more windows, one ended early after a ". "
\* and one cut at window_chars before the end of the text
C23_Witness ==
  /\ split_pc = "returned" /\ opts.window_chars >= 1
  /\ Len(window_list) >= 3
  /\ \E k \in DOMAIN window_list :
        /\ window_list[k].end < Len(transcript)
        /\ window_list[k].end - window_list[k].start < opts.window_chars
  /\ \E k \in DOMAIN window_list :
        /\ window_list[k].end < Len(transcript)
        /\ window_list[k].end - window_list[k].start = opts.window_chars

\* an iteration of the loop of split_into_windows_by_chars
IsSplitStep == split_pc = "loop" /\ window_list' # window_list

\* C30: split_into_windows_by_chars terminates for every window_chars, 0
\* included: every iteration of its loop moves the cursor forward, so it
\* appends at most len(transcript) windows.
C30_CursorAdvances ==
  [][ IsSplitStep =>
        /\ cursor' > cursor
        /\ Len(window_list') <= Len(transcript) ]_vars

\* C24: extract() on a transcript that is empty or all whitespace raises
\* ValueError "Transcript cannot be empty" before it runs the extraction.
C24_EmptyRejected ==
  (extract_pc # "idle" /\ Strip(transcript) = <<>>) =>
    /\ extract_pc = "raised"
    /\ error = [type |-> "ValueError", msg |-> "Transcript cannot be empty"]
    /\ cli_runs = 0

\* list b is list a in another order
IsPermutation(a, b) ==
  /\ Len(a) = Len(b)
  /\ \E f \in [DOMAIN a -> DOMAIN a] :
        /\ \A i, j \in DOMAIN a : f[i] = f[j] => i = j
        /\ \A i \in DOMAIN a : b[i] = a[f[i]]

\* C25: of two calls of compute_normalizer_signature, one after the other,
\* the results are equal when model and template_version are equal and
\* the taxonomy lists are permutations of each other, and different when
\* only the model or only the template_version differs.
C25_Signature ==
  [][ (call.name = "compute_normalizer_signature"
         /\ call'.name = "compute_normalizer_signature") =>
        /\ ( /\ call'.model = call.model
             /\ call'.template_version = call.template_version
             /\ IsPermutation(call.taxonomy, call'.taxonomy) ) => ret' = ret
        /\ ( /\ call'.model # call.model
             /\ call'.template_version = call.template_version
             /\ call'.taxonomy = call.taxonomy ) => ret' # ret
        /\ ( /\ call'.model = call.model
             /\ call'.template_version # call.template_version
             /\ call'.taxonomy = call.taxonomy ) => ret' # ret ]_vars

\* a call with a taxonomy of three different types that another order of
\* the same types gives the same signature
C25_Witness ==
  /\ call.name = "compute_normalizer_signature"
  /\ Cardinality(Range(call.taxonomy)) = 3
  /\ \E t \in Taxonomies :
        /\ t # call.taxonomy
        /\ IsPermutation(call.taxonomy, t)
        /\ ret = compute_normalizer_signature(call.model,
                                               call.template_version, t)

\* the candidates left by the exact pass
Deduped == Range(ExactDedup(Candidates_of(transcript, opts)))

\* jaccard3(u.text, v.text) >= jaccard_threshold
Similar(u, v) == jaccard3_at_least(u.text, v.text, opts.jaccard_threshold)

\* C26: the list kept by the near-duplicate pass is taken from the
\* exact-deduplicated candidates in ascending (start, text) order and begins
\* with the first of them; two consecutive kept elements are less similar
\* than the threshold; a candidate is left out exactly when it is as
\* similar as the threshold to the element kept last before it, whatever
\* its similarity to elements kept earlier.
C26_NearDuplicates ==
  executions >= 1 =>
    \E deduped \in { Deduped } :
       /\ Range(collapsed) \subseteq deduped
       /\ \A k \in 1..(Len(collapsed) - 1) :
             /\ ByStartText(collapsed[k], collapsed[k + 1])
             /\ ~Similar(collapsed[k + 1], collapsed[k])
       /\ \A d \in deduped :
             \/ collapsed # <<>> /\ d = collapsed[1]
             \/ \E k \in DOMAIN collapsed :
                   /\ ByStartText(collapsed[k], d)
                   /\ \A j \in DOMAIN collapsed :
                         ByStartText(collapsed[j], d) => j <= k
                   /\ (d \in Range(collapsed)) = ~Similar(d, collapsed[k])

\* a pass that kept two or more elements and left a candidate out
C26_Witness ==
  /\ executions >= 1
  /\ Len(collapsed) >= 2
  /\ Deduped \ Range(collapsed) # {}

\* C27: the units returned are survivors of the deduplication passes, as
\* many as the smaller of the target and their number, and each of them
\* comes strictly before each survivor left out under the key
\* (-quant(score), window, start, text): a higher quantized score, or the
\* same one and an earlier window, or the same window and an earlier start,
\* or the same start and a smaller text.
C27_TopByRank ==
  executions >= 1 =>
    LET target == target_count_of(opts, total_len)
    IN  /\ Range(units) \subseteq Range(collapsed)
        /\ Cardinality(Range(units)) = Min(target, Len(collapsed))
        /\ \E q \in { <<>> \o [i \in DOMAIN collapsed |-> quant(collapsed[i].score)] } :
           \E chosen \in { { i \in DOMAIN collapsed : collapsed[i] \in Range(units) } } :
              \A i \in chosen, j \in DOMAIN collapsed \ chosen :
                 LET s == collapsed[i]
                     t == collapsed[j]
                 IN  \/ q[i] > q[j]
                     \/ /\ q[i] = q[j]
                        /\ \/ s.window < t.window
                           \/ /\ s.window = t.window
                              /\ \/ s.start < t.start
                                 \/ s.start = t.start /\ StrLess(s.text, t.text)

\* a survivor was left out whose quantized score equals that of a unit
\* returned, the earlier start having decided between them
C27_Witness ==
  /\ executions >= 1
  /\ \E s \in Range(units), t \in Range(collapsed) \ Range(units) :
        /\ quant(s.score) = quant(t.score)
        /\ s.start < t.start

\* C28: with per_window_quota set to q, each window the loop has been through
\* has at most q of its candidates in the list handed to deduplication; a
\* window that produced at most q has all of them there, and one that
\* produced more has exactly q there, each of which comes before each of the
\* others under the key (-quant(score), start, text).
C28_Quota ==
  opts.per_window_quota # <<>> =>
    \A k \in 1..window_no :
       LET q == opts.per_window_quota[1]
           produced == WindowCands(transcript, opts, window_list[k])
           kept == { u \in Range(unit_candidates) : u.window = window_list[k].index }
       IN  /\ Cardinality(kept) <= q
           /\ kept \subseteq Range(produced)
           /\ Len(produced) <= q => kept = Range(produced)
           /\ Len(produced) > q =>
                 /\ Cardinality(kept) = q
                 /\ \A s \in kept, t \in Range(produced) \ kept :
                       \/ quant(s.score) > quant(t.score)
                       \/ /\ quant(s.score) = quant(t.score)
                          /\ \/ s.start < t.start
                             \/ s.start = t.start /\ StrLess(s.text, t.text)

\* this step starts a run() with the arguments of the latest run() that
\* ended in the fallback, the signature not having changed since
Revisit ==
  /\ IsRunStart
  /\ last_fallback.made
  /\ video_id' = last_fallback.video_id
  /\ candidates' = last_fallback.candidates

\* the cache holds, under the key of each unit of the latest fallback batch,
\* the record that run() stored for it
FallbackStored ==
  \A i \in DOMAIN last_fallback.result.units :
     LET u == last_fallback.result.units[i]
     IN  get(data, last_fallback.video_id, u.id)
           = << CacheRecord(u.type, u.name, u.summary, u.confidence,
                            normalizer_sig) >>

\* C29 as stated: every later run() with the arguments of a run() that ended
\* in the fallback, on an unchanged signature, is served from cache with no
\* categorizer call and returns the same fallback units.
C29_Sticky ==
  [][ Revisit =>
        /\ pc' = "idle" /\ path' = "cache" /\ calls' = 0
        /\ result' = last_fallback.result ]_vars

\* C29, amended: every such run() is served from cache with no categorizer
\* call; it returns the same fallback units as long as the cache still holds
\* the records the fallback stored under its keys, which a later batch that
\* shares a key with it replaces.
C29_StickyWhileStored ==
  [][ Revisit =>
        /\ pc' = "idle" /\ path' = "cache" /\ calls' = 0
        /\ FallbackStored => result' = last_fallback.result ]_vars

\* a run() of a non-empty list, not the repetition of the run() before it on
\* this runner, returned from cache the units of an earlier fallback
C29_Witness ==
  /\ Returned /\ path = "cache" /\ calls = 0 /\ repeat = "no"
  /\ candidates # <<>>
  /\ last_fallback.made
  /\ video_id = last_fallback.video_id
  /\ candidates = last_fallback.candidates
  /\ result = last_fallback.result

====
